---- MODULE Spec2Model ----
(***************************************************************************)
(* A model of the auto-metadata-gen extraction pipeline:                   *)
(*   data_utils.py          extract_text, extract_text_from_pdf,           *)
(*                          get_file_metadata and its two readers          *)
(*   nlp_utils.py           clean_text, extract_keywords, extract_summary, *)
(*                          extract_sections                               *)
(*   metadata_generator.py  _detect_title, generate_metadata               *)
(*                                                                         *)
(* Text is a sequence of one-character strings.  The third-party readers,  *)
(* the OCR engine, the sentence segmenter and the term-weighting engine    *)
(* are inputs of the calls: what they answer is chosen from small sets.    *)
(***************************************************************************)
EXTENDS Integers, Sequences, FiniteSets, TLC

VARIABLES
    pc,       \* position of the caller: "idle", a stage of generate_metadata, "returned", "raised"
    call,     \* the function being called and its arguments
    locals,   \* the local variables of the handler that ran (or is running)
    result,   \* the value returned, [kind |-> "none"] while nothing was returned
    error,    \* the exception that left the call, "none" when there is none
    prev,     \* an earlier call of extract_sections and what it returned
    app_pc,   \* position of a run of app.py on an upload, "none" outside such a run
    disk,     \* the paths of the files that temp_uploads holds
    remove_tried  \* TRUE once the run called os.remove on its temporary file

\* the state of a run of app.py
app == <<app_pc, disk, remove_tried>>

vars == <<pc, call, locals, result, error, prev, app_pc, disk, remove_tried>>

\* ------------------------------------------------------------------ bounds

MaxLineLen == 3
MaxLines == 2
MaxRepeatLines == 3

\* ------------------------------------------------------- characters, str

UpperLetters ==
    <<"A","B","C","D","E","F","G","H","I","J","K","L","M",
      "N","O","P","Q","R","S","T","U","V","W","X","Y","Z">>

LowerLetters ==
    <<"a","b","c","d","e","f","g","h","i","j","k","l","m",
      "n","o","p","q","r","s","t","u","v","w","x","y","z">>

Range(f) == {f[i] : i \in DOMAIN f}

Digits == {"0","1","2","3","4","5","6","7","8","9"}

IsUpper(c) == c \in Range(UpperLetters)

IsLower(c) == c \in Range(LowerLetters)

IsAlpha(c) == IsUpper(c) \/ IsLower(c)

IsDigit(c) == c \in Digits

\* the characters of the model on which str.isspace holds
SpaceChars == {" ", "\t", "\n"}

IsSpace(c) == c \in SpaceChars

\* the characters of the model that are line boundaries for str.splitlines
LineBreakChars == {"\n"}

LetterIndex(c) ==
    CHOOSE i \in 1..26 : UpperLetters[i] = c \/ LowerLetters[i] = c

ToLower(c) == IF IsUpper(c) THEN LowerLetters[LetterIndex(c)] ELSE c

ToUpper(c) == IF IsLower(c) THEN UpperLetters[LetterIndex(c)] ELSE c

\* str.lower
lower(s) == [i \in 1..Len(s) |-> ToLower(s[i])]

\* str.title: a cased character is upper-cased when the character before it is
\* not cased, lower-cased when it is; the others are kept
title(s) ==
    [i \in 1..Len(s) |->
        IF ~IsAlpha(s[i]) THEN s[i]
        ELSE IF i > 1 /\ IsAlpha(s[i-1]) THEN ToLower(s[i]) ELSE ToUpper(s[i])]

\* the first position of s from i on that holds no whitespace, Len(s) + 1 if none
RECURSIVE SkipSpaces(_, _)
SkipSpaces(s, i) ==
    IF i > Len(s) \/ ~IsSpace(s[i]) THEN i ELSE SkipSpaces(s, i + 1)

\* the last position of s up to i that holds no whitespace, 0 if none
RECURSIVE SkipSpacesBack(_, _)
SkipSpacesBack(s, i) ==
    IF i < 1 \/ ~IsSpace(s[i]) THEN i ELSE SkipSpacesBack(s, i - 1)

\* str.strip
strip(s) == SubSeq(s, SkipSpaces(s, 1), SkipSpacesBack(s, Len(s)))

\* the positions, in order, at which the sequence of truth values holds TRUE
Positions(flags) == SelectSeq([i \in 1..Len(flags) |-> i], LAMBDA i : flags[i])

\* the pieces of s between the positions `at` (in order), the empty pieces kept
PiecesBetween(s, at) ==
    [j \in 1..(Len(at) + 1) |->
        SubSeq(s, IF j = 1 THEN 1 ELSE at[j - 1] + 1,
                  IF j = Len(at) + 1 THEN Len(s) ELSE at[j] - 1)]

\* str.splitlines: the text cut at the line breaks; a line break at the very
\* end starts no further line, and the empty text has no line
splitlines(text) ==
    LET p == PiecesBetween(text, Positions([i \in 1..Len(text) |-> text[i] \in LineBreakChars]))
    IN  IF p[Len(p)] = <<>> THEN SubSeq(p, 1, Len(p) - 1) ELSE p

\* str.split(): the maximal runs of non-whitespace characters
split(s) == SelectSeq(PiecesBetween(s, Positions([i \in 1..Len(s) |-> IsSpace(s[i])])), LAMBDA w : w # <<>>)

\* sep.join(parts)
RECURSIVE join(_, _)
join(sep, parts) ==
    IF parts = <<>> THEN <<>>
    ELSE IF Len(parts) = 1 THEN parts[1]
    ELSE parts[1] \o sep \o join(sep, Tail(parts))

\* ------------------------------------------------------- extract_sections

MaxHeadingLen == 60

\* re.match(r'^[A-Z0-9 \-]+$', stripped)
MatchesCapsPattern(s) ==
    /\ s # <<>>
    /\ \A i \in 1..Len(s) : IsUpper(s[i]) \/ IsDigit(s[i]) \/ s[i] \in {" ", "-"}

\* re.match(r'^\d+\. ?[A-Za-z].*', stripped)
MatchesNumberedPattern(s) ==
    LET nd == Cardinality({i \in 1..Len(s) : \A j \in 1..i : IsDigit(s[j])})
    IN  /\ nd >= 1
        /\ Len(s) > nd
        /\ s[nd + 1] = "."
        /\ \/ Len(s) >= nd + 2 /\ IsAlpha(s[nd + 2])
           \/ Len(s) >= nd + 3 /\ s[nd + 2] = " " /\ IsAlpha(s[nd + 3])

\* SectionOfLine with the length test off by one: a line of 60 characters is skipped
SectionOfLineShort(line) ==
    LET stripped == strip(line)
    IN  IF stripped = <<>> \/ Len(stripped) >= MaxHeadingLen THEN <<>>
        ELSE IF MatchesCapsPattern(stripped) /\ \E i \in 1..Len(stripped) : IsAlpha(stripped[i])
             THEN <<title(stripped)>>
        ELSE IF MatchesNumberedPattern(stripped) THEN <<stripped>>
        ELSE <<>>

\* the body of the loop over the lines: what one line appends to `sections`
SectionOfLine(line) ==
    LET stripped == strip(line)
    IN  IF stripped = <<>> \/ Len(stripped) > MaxHeadingLen THEN <<>>
        ELSE IF MatchesCapsPattern(stripped) /\ \E i \in 1..Len(stripped) : IsAlpha(stripped[i])
             THEN <<title(stripped)>>
        ELSE IF MatchesNumberedPattern(stripped) THEN <<stripped>>
        ELSE <<>>

RECURSIVE CollectSections(_)
CollectSections(lines) ==
    IF lines = <<>> THEN <<>>
    ELSE SectionOfLine(lines[1]) \o CollectSections(Tail(lines))

\* SeenAtEntry with `seen` kept from one call to the next
SeenKept(left) == left

\* `seen` as the deduplication loop starts: a fresh set, whatever an earlier call left
SeenAtEntry(left) == {}

\* the deduplication loop: <<unique, seen>> after it ran over `sections`
RECURSIVE Dedup(_, _, _)
Dedup(sections, unique, seen) ==
    IF sections = <<>> THEN <<unique, seen>>
    ELSE IF sections[1] \in seen THEN Dedup(Tail(sections), unique, seen)
    ELSE Dedup(Tail(sections), Append(unique, sections[1]), seen \cup {sections[1]})

\* extract_sections(text), given what an earlier call left in its `seen`
extract_sections(text, left) ==
    Dedup(CollectSections(splitlines(text)), <<>>, SeenAtEntry(left))

\* ---------------------------------------------------------- _detect_title

\* the literal line 46 appends: in the source file it is the three characters
\* U+00E2 U+20AC U+00A6, not the one character U+2026
TruncationMark == <<"U+00E2", "U+20AC", "U+00A6">>

\* the loop over the lines: the stripped lines before the first blank one
RECURSIVE TitleBlock(_)
TitleBlock(lines) ==
    IF lines = <<>> THEN <<>>
    ELSE LET stripped == strip(lines[1])
         IN  IF stripped = <<>> THEN <<>>
             ELSE <<stripped>> \o TitleBlock(Tail(lines))

\* words[:n] for n >= 0
FirstWords(words, n) == SubSeq(words, 1, IF n < Len(words) THEN n ELSE Len(words))

_detect_title(text, max_words) ==
    LET title_candidate == strip(join(<<" ">>, TitleBlock(splitlines(text))))
        words == split(title_candidate)
    IN  IF Len(words) > max_words
        THEN join(<<" ">>, FirstWords(words, max_words)) \o TruncationMark
        ELSE title_candidate

\* -------------------------------------------------------- extract_summary

\* a[i:] of Python for any integer i: a negative i counts from the end, and -0 is 0
SliceFrom(a, i) ==
    LET n == Len(a)
        start == IF i < 0 THEN (IF n + i > 0 THEN n + i ELSE 0)
                 ELSE (IF i < n THEN i ELSE n)
    IN  SubSeq(a, start + 1, n)

\* sentences = [sent.text.strip() for sent in doc.sents if sent.text.strip()]
RECURSIVE NonEmptySentences(_)
NonEmptySentences(sents) ==
    IF sents = <<>> THEN <<>>
    ELSE LET t == strip(sents[1])
         IN  (IF t = <<>> THEN <<>> ELSE <<t>>) \o NonEmptySentences(Tail(sents))

\* scores.argsort(): the orders of the indices 1..n that put the scores in
\* ascending order; the order among equal scores is the sorting routine's
ArgSorts(scores) ==
    LET n == Len(scores)
    IN  {p \in [1..n -> 1..n] :
            /\ \A i, j \in 1..n : i # j => p[i] # p[j]
            /\ \A i \in 1..(n - 1) : scores[p[i]] <= scores[p[i + 1]]}

\* sorted(top_idxs)
RECURSIVE SortedIndices(_)
SortedIndices(S) ==
    IF S = {} THEN <<>>
    ELSE LET m == CHOOSE x \in S : \A y \in S : x <= y
         IN  <<m>> \o SortedIndices(S \ {m})

\* the vectorizer refuses a corpus in which no term is left (every sentence
\* weighs nothing): ValueError, empty vocabulary
EmptyVocabulary(scores) == \A i \in 1..Len(scores) : scores[i] = 0

\* the summary built from the order `order` that argsort gave
SummaryOf(sentences, order, num_sentences) ==
    LET top_idxs == SliceFrom(order, 0 - num_sentences)
        ordered == SortedIndices(Range(top_idxs))
    IN  join(<<" ">>, [i \in 1..Len(ordered) |-> sentences[ordered[i]]])

\* ------------------------------------------------------------ extract_text

OcrThreshold == 100

\* os.path.splitext(path)[1]: the part of the path from its last dot on, when
\* that dot comes after the last separator and after a character of the file
\* name that is not a dot; the empty string otherwise
splitext_ext(path) ==
    LET seps == {i \in 1..Len(path) : path[i] = "/"}
        dots == {i \in 1..Len(path) : path[i] = "."}
        sepIndex == IF seps = {} THEN 0 ELSE CHOOSE i \in seps : \A j \in seps : j <= i
        dotIndex == IF dots = {} THEN 0 ELSE CHOOSE i \in dots : \A j \in dots : j <= i
    IN  IF dotIndex > sepIndex /\ \E i \in (sepIndex + 1)..(dotIndex - 1) : path[i] # "."
        THEN SubSeq(path, dotIndex, Len(path))
        ELSE <<>>

\* page.extract_text() or ""
TextOrEmpty(page) == IF page.given THEN page.text ELSE <<>>

\* what a call made of the readers and how it ended
Returned(readers, value) ==
    [readers |-> readers, ended |-> "returned", value |-> value, error |-> "none"]

Raised(readers, err) ==
    [readers |-> readers, ended |-> "raised", value |-> <<>>, error |-> err]

\* extract_text_from_txt: open(path, errors='ignore') and read
extract_text_from_txt(file) ==
    IF file.opens THEN Returned(<<"open">>, file.content)
    ELSE Raised(<<"open">>, "ReaderError")

\* extract_text_from_docx: the paragraph texts joined by newlines
extract_text_from_docx(file) ==
    IF file.opens THEN Returned(<<"Document">>, join(<<"\n">>, file.paragraphs))
    ELSE Raised(<<"Document">>, "ReaderError")

\* TooLittleText with the limit itself counted as too little
TooLittleTextInclusive(joined) == Len(joined) <= OcrThreshold

\* the test that sends a PDF to OCR
TooLittleText(joined) == Len(joined) < OcrThreshold

\* extract_text_from_pdf: the page texts joined by newlines and stripped, or,
\* when that is too little, the texts recognised on the page images
extract_text_from_pdf(file) ==
    IF ~file.opens THEN Raised(<<"PdfReader">>, "ReaderError")
    ELSE LET text_pages == [i \in 1..Len(file.pages) |-> TextOrEmpty(file.pages[i])]
             joined == strip(join(<<"\n">>, text_pages))
         IN  IF TooLittleText(joined)
             THEN IF file.rasterizes
                  THEN Returned(<<"PdfReader", "convert_from_path", "image_to_string">>,
                                join(<<"\n">>, file.ocr))
                  ELSE Raised(<<"PdfReader", "convert_from_path">>, "ReaderError")
             ELSE Returned(<<"PdfReader">>, joined)

\* extract_text comparing the extension as it is written, not lowercased
extract_text_as_written(path, file) ==
    LET ext == splitext_ext(path)
    IN  IF ext = <<".","t","x","t">> THEN extract_text_from_txt(file)
        ELSE IF ext = <<".","d","o","c","x">> THEN extract_text_from_docx(file)
        ELSE IF ext = <<".","p","d","f">> THEN extract_text_from_pdf(file)
        ELSE Raised(<<>>, "UnsupportedFormat")

\* extract_text
extract_text(path, file) ==
    LET ext == lower(splitext_ext(path))
    IN  IF ext = <<".","t","x","t">> THEN extract_text_from_txt(file)
        ELSE IF ext = <<".","d","o","c","x">> THEN extract_text_from_docx(file)
        ELSE IF ext = <<".","p","d","f">> THEN extract_text_from_pdf(file)
        ELSE Raised(<<>>, "UnsupportedFormat")

\* ------------------------------------------------------- get_file_metadata

\* the values a metadata field can hold: None, a string, a datetime (kept as
\* the string its isoformat() gives)
None == [kind |-> "None", value |-> <<>>]

Str(t) == [kind |-> "str", value |-> t]

DateTime(iso) == [kind |-> "datetime", value |-> iso]

\* bool(v)
Truthy(v) == v.kind = "datetime" \/ (v.kind = "str" /\ v.value # <<>>)

\* a or b
Or(a, b) == IF Truthy(a) THEN a ELSE b

AllDigits(t) == \A i \in 1..Len(t) : IsDigit(t[i])

DigitValue(c) == CHOOSE n \in 0..9 : <<"0","1","2","3","4","5","6","7","8","9">>[n + 1] = c

TwoDigits(t, i) == 10 * DigitValue(t[i]) + DigitValue(t[i + 1])

\* datetime.strptime(t, "%Y%m%d%H%M%S") accepts t: fourteen digits that make a date
ParsesAsDate(t) ==
    /\ Len(t) = 14
    /\ AllDigits(t)
    /\ TwoDigits(t, 5) \in 1..12
    /\ TwoDigits(t, 7) \in 1..28
    /\ TwoDigits(t, 9) \in 0..23
    /\ TwoDigits(t, 11) \in 0..59
    /\ TwoDigits(t, 13) \in 0..59

\* datetime.strptime(t, "%Y%m%d%H%M%S").isoformat(): YYYY-MM-DDTHH:MM:SS
IsoFormat(t) ==
    SubSeq(t, 1, 4) \o <<"-">> \o SubSeq(t, 5, 6) \o <<"-">> \o SubSeq(t, 7, 8) \o <<"T">>
    \o SubSeq(t, 9, 10) \o <<":">> \o SubSeq(t, 11, 12) \o <<":">> \o SubSeq(t, 13, 14)

\* s[:14]
Prefix14(t) == SubSeq(t, 1, IF Len(t) < 14 THEN Len(t) ELSE 14)

\* created_at of get_pdf_metadata from the raw creation date
PdfCreatedAt(raw) ==
    IF ~Truthy(raw) THEN <<>>
    ELSE IF raw.kind = "datetime" THEN raw.value
    ELSE LET s == IF Len(raw.value) >= 2 /\ SubSeq(raw.value, 1, 2) = <<"D", ":">>
                  THEN SubSeq(raw.value, 3, Len(raw.value))
                  ELSE raw.value
         IN  IF ParsesAsDate(Prefix14(s)) THEN IsoFormat(Prefix14(s)) ELSE s

MetaReturned(author, created_at) ==
    [ended |-> "returned", author |-> author, created_at |-> created_at, error |-> "none"]

MetaRaised(err) ==
    [ended |-> "raised", author |-> None, created_at |-> None, error |-> err]

\* get_pdf_metadata: the reader may fail to open the file, and reading a
\* property of the metadata object may fail; neither is caught
get_pdf_metadata(file) ==
    IF ~file.opens THEN MetaRaised("ReaderError")
    ELSE IF file.access_fails THEN MetaRaised("ReaderError")
    ELSE LET info == file.info
             author == IF info.style = "attr" THEN Or(info.author, Str(<<>>))
                       ELSE Or(Or(info.author, info.slash_author), Str(<<>>))
             raw == IF info.style = "attr" THEN info.creation_date
                    ELSE Or(info.creation_date, info.slash_creation_date)
         IN  MetaReturned(author, Str(PdfCreatedAt(raw)))

\* get_docx_metadata
get_docx_metadata(file) ==
    IF ~file.opens THEN MetaRaised("ReaderError")
    ELSE IF file.access_fails THEN MetaRaised("ReaderError")
    ELSE LET props == file.info
             author == Or(props.author, Str(<<>>))
             created_at == IF Truthy(props.creation_date) THEN props.creation_date.value
                           ELSE <<>>
         IN  MetaReturned(author, Str(created_at))

\* get_file_metadata
get_file_metadata(path, file) ==
    LET ext == lower(splitext_ext(path))
    IN  IF ext = <<".","p","d","f">> THEN get_pdf_metadata(file)
        ELSE IF ext = <<".","d","o","c","x">> THEN get_docx_metadata(file)
        ELSE MetaReturned(Str(<<>>), Str(<<>>))

\* ------------------------------------------------------- extract_keywords

\* re.sub(r"\s+", " ", text): every run of whitespace becomes one space
CollapseSpaces(s) ==
    LET kept == SelectSeq([i \in 1..Len(s) |-> i],
                          LAMBDA i : ~IsSpace(s[i]) \/ i = 1 \/ ~IsSpace(s[i - 1]))
    IN  [j \in 1..Len(kept) |-> IF IsSpace(s[kept[j]]) THEN " " ELSE s[kept[j]]]

\* clean_text
clean_text(text) == strip(CollapseSpaces(text))

\* \w of the token pattern
IsWordChar(c) == IsAlpha(c) \/ IsDigit(c) \/ c = "_"

IsNoWordChar(c) == ~IsWordChar(c)

\* the maximal runs of word characters of s, the empty ones included
WordRuns(s) == PiecesBetween(s, Positions([i \in 1..Len(s) |-> IsNoWordChar(s[i])]))

\* the members of the vectorizer's English stop word list that the texts of the
\* model can hold
StopWords ==
    { <<"t","h","e">>, <<"o","f">>, <<"o","n">>, <<"i","s">>, <<"a","n","d">>,
      <<"t","o">>, <<"i","n">>, <<"i","t">>, <<"a","n">> }

\* the analyzer of TfidfVectorizer(stop_words="english"): the text lowercased,
\* its tokens r"(?u)\b\w\w+\b" (two word characters or more), the stop words dropped
Tokens(doc) ==
    SelectSeq(WordRuns(lower(doc)), LAMBDA t : Len(t) >= 2 /\ t \notin StopWords)

\* the term frequency of t among the tokens
TermCount(tokens, t) == Cardinality({i \in 1..Len(tokens) : tokens[i] = t})

\* the vocabularies max_features leaves: the whole vocabulary when it is small
\* enough, else top_n terms none of which is rarer than a term left out (the
\* order among equally frequent terms is the sorting routine's)
LimitedVocabularies(tokens, top_n) ==
    LET vocabulary == Range(tokens)
    IN  IF Cardinality(vocabulary) <= top_n THEN {vocabulary}
        ELSE {V \in SUBSET vocabulary :
                /\ Cardinality(V) = top_n
                /\ \A t \in V : \A u \in vocabulary \ V :
                       TermCount(tokens, t) >= TermCount(tokens, u)}

\* the characters of a token in code point order
CodePointOrder ==
    <<"0","1","2","3","4","5","6","7","8","9","_">> \o LowerLetters

CodeRank(c) == CHOOSE i \in 1..Len(CodePointOrder) : CodePointOrder[i] = c

\* a < b for two strings
RECURSIVE StrLess(_, _)
StrLess(a, b) ==
    IF b = <<>> THEN FALSE
    ELSE IF a = <<>> THEN TRUE
    ELSE IF a[1] = b[1] THEN StrLess(Tail(a), Tail(b))
    ELSE CodeRank(a[1]) < CodeRank(b[1])

\* get_feature_names_out().tolist(): the vocabulary in sorted order
RECURSIVE FeatureNames(_)
FeatureNames(V) ==
    IF V = {} THEN <<>>
    ELSE LET least == CHOOSE t \in V : \A u \in V \ {t} : StrLess(t, u)
         IN  <<least>> \o FeatureNames(V \ {least})

\* the vectorizer refuses max_features that is no positive integer, and a
\* document in which no term is left
KeywordsRaise(text, top_n) == top_n <= 0 \/ Tokens(clean_text(text)) = <<>>

\* KeywordLists with max_features ignored
AllKeywordLists(text, top_n) == {FeatureNames(Range(Tokens(clean_text(text))))}

\* extract_keywords: the lists it can return when it does not raise
KeywordLists(text, top_n) ==
    {FeatureNames(V) : V \in LimitedVocabularies(Tokens(clean_text(text)), top_n)}

\* ------------------------------------------------------ generate_metadata

\* os.path.basename(path)
basename(path) ==
    LET seps == {i \in 1..Len(path) : path[i] = "/"}
        last == IF seps = {} THEN 0 ELSE CHOOSE i \in seps : \A j \in seps : j <= i
    IN  SubSeq(path, last + 1, Len(path))

\* WordCount counting the characters
CharCount(raw) == Len(raw)

\* word_count = len(raw.split())
WordCount(raw) == Len(split(raw))

\* the odd word counts up to 19 for which the double nearest to word_count / 200
\* lies above the decimal it stands for (0.005, 0.025, ...): round(..., 2) goes
\* up for them, and down for the other odd ones
DoubleLiesAbove == {1, 5, 7, 11, 13, 17, 19}

\* round(word_count / wpm, 2), in hundredths of a minute, for wpm > 0: the
\* nearest hundredth; halfway between two, the one the double is nearer to
ReadingTime(word_count, wpm) ==
    LET q == (100 * word_count) \div wpm
        r == (100 * word_count) % wpm
    IN  IF 2 * r < wpm THEN q
        ELSE IF 2 * r > wpm THEN q + 1
        ELSE IF wpm = 200 /\ word_count \in DoubleLiesAbove THEN q + 1
        ELSE q

\* the record without its sections
MetaWithoutSections(l) ==
    [filename |-> l.filename, filetype |-> lower(l.ext), title |-> l.title,
     word_count |-> l.word_count, reading_time_min |-> l.reading_time_min,
     keywords |-> l.keywords, summary |-> l.summary, entities |-> l.entities,
     author |-> l.file_meta.author.value, created_at |-> l.file_meta.created_at.value,
     language |-> l.language]

\* meta: the record assembled from the local variables
Meta(l) ==
    [filename |-> l.filename, filetype |-> lower(l.ext), title |-> l.title,
     word_count |-> l.word_count, reading_time_min |-> l.reading_time_min,
     keywords |-> l.keywords, summary |-> l.summary, entities |-> l.entities,
     sections |-> l.sections,
     author |-> l.file_meta.author.value, created_at |-> l.file_meta.created_at.value,
     language |-> l.language]

\* ------------------------------------------------------------ the caller

NoResult == [kind |-> "none"]

NoCall == [fn |-> "none"]

\* a caller that has just called one of `calls`: nothing ran yet
Called(calls) ==
    /\ pc = "called"
    /\ call \in calls
    /\ locals = [seen |-> {}]
    /\ result = NoResult
    /\ error = "none"
    /\ prev = NoCall
    /\ app_pc = "none"
    /\ disk = {}
    /\ remove_tried = FALSE

\* all the sequences over `alphabet` of length 0..n
SeqsUpTo(alphabet, n) == UNION {[1..k -> alphabet] : k \in 0..n}

\* ------------------------------------------- inputs of extract_sections

SectionAlphabet == {"A", "b", "1", ".", " ", "-"}

\* the run of capitals that brings a short line to the length limit and past it
Padding(n) == [i \in 1..n |-> "A"]

NearLimit == MaxHeadingLen - MaxLineLen

PaddingLengths == {0, NearLimit, NearLimit + 1}

SectionLines ==
    {l \o Padding(n) : l \in SeqsUpTo(SectionAlphabet, MaxLineLen), n \in PaddingLengths}

LineSamples ==
    { <<"A","B">>, <<" ","A","B","\t">>, <<"B","-","A"," ","2">>, <<"1","."," ","A","b">>,
      <<"1",".","A","b">>, <<"A","b">>, <<" ">> }

IntroductionLine == <<"I","N","T","R","O","D","U","C","T","I","O","N">>

FirstSectionLine == <<"1","."," ","F","i","r","s","t"," ","S","e","c","t","i","o","n">>

ParagraphLine == <<"S","o","m","e"," ","p","a","r","a","g","r","a","p","h",".">>

ConclusionLine == <<"C","O","N","C","L","U","S","I","O","N">>

\* the text of test_sections_field_present
ExampleText ==
    join(<<"\n">>, <<IntroductionLine, FirstSectionLine, ParagraphLine, ConclusionLine>>)

SectionTexts ==
    SectionLines
    \cup {join(<<"\n">>, ls) : ls \in SeqsUpTo(LineSamples, MaxLines)}
    \cup {ExampleText}

RepeatSamples == { <<"A","B">>, <<" ","A","B">>, <<"1","."," ","A","b">> }

RepeatTexts == {join(<<"\n">>, ls) : ls \in SeqsUpTo(RepeatSamples, MaxRepeatLines)}

\* ------------------------------------------------- calls of extract_sections

SectionCalls(texts) == {[fn |-> "extract_sections", text |-> t] : t \in texts}

\* one call of extract_sections(text), from entry to return
ExtractSections ==
    /\ pc = "called"
    /\ call.fn = "extract_sections"
    /\ LET r == extract_sections(call.text, locals.seen)
       IN  /\ locals' = [seen |-> r[2]]
           /\ result' = [kind |-> "list", value |-> r[1]]
    /\ pc' = "returned"
    /\ UNCHANGED <<call, error, prev, app>>

\* the caller calls extract_sections once more, on any text; `prev` keeps the
\* call that has just returned and its result, or the earlier call it held
CallSectionsAgain ==
    /\ pc = "returned"
    /\ call.fn = "extract_sections"
    /\ \E t \in RepeatTexts : call' = [fn |-> "extract_sections", text |-> t]
    /\ \E keep \in BOOLEAN :
        prev' = IF keep /\ prev.fn = "extract_sections" THEN prev
                ELSE [fn |-> call.fn, text |-> call.text, value |-> result.value]
    /\ pc' = "called"
    /\ UNCHANGED <<locals, result, error, app>>

SpecSections == Called(SectionCalls(SectionTexts)) /\ [][ExtractSections]_vars

SpecRepeat ==
    Called(SectionCalls(RepeatTexts)) /\ [][ExtractSections \/ CallSectionsAgain]_vars

SectionsReturned == pc = "returned" /\ call.fn = "extract_sections"

\* ---- the rules of a heading as the specification words them

\* rule (a): only uppercase letters, digits, spaces and hyphens, and at least one letter
RuleA(s) ==
    /\ Len(s) >= 1
    /\ \A i \in 1..Len(s) : s[i] \in Range(UpperLetters) \cup Digits \cup {" ", "-"}
    /\ \E i \in 1..Len(s) : IsAlpha(s[i])

\* rule (b): one or more digits, a period, an optional space, a letter, then anything
RuleB(s) ==
    \E d \in 1..Len(s) :
        /\ \A i \in 1..d : s[i] \in Digits
        /\ Len(s) > d /\ s[d + 1] = "."
        /\ \/ Len(s) > d + 1 /\ IsAlpha(s[d + 2])
           \/ Len(s) > d + 2 /\ s[d + 2] = " " /\ IsAlpha(s[d + 3])

\* title-case: the first letter of every run of letters in upper case, the rest in lower case
TitleCase(s) ==
    [i \in 1..Len(s) |->
        IF i = 1 \/ ~IsAlpha(s[i - 1]) THEN ToUpper(s[i]) ELSE ToLower(s[i])]

IsHeading(line) ==
    LET s == strip(line)
    IN  s # <<>> /\ Len(s) <= 60 /\ (RuleA(s) \/ RuleB(s))

HeadingOf(line) ==
    LET s == strip(line) IN IF RuleA(s) THEN TitleCase(s) ELSE s

ExampleSections ==
    << <<"I","n","t","r","o","d","u","c","t","i","o","n">>,
       FirstSectionLine,
       <<"C","o","n","c","l","u","s","i","o","n">> >>

C5_WitnessAtLimit ==
    /\ SectionsReturned
    /\ Len(call.text) = 60
    /\ Len(result.value) = 1

\* the index of the first line of the called text whose heading is h
FirstLineOf(h) ==
    LET lines == splitlines(call.text)
        at == {i \in 1..Len(lines) : IsHeading(lines[i]) /\ HeadingOf(lines[i]) = h}
    IN  CHOOSE i \in at : \A j \in at : i <= j

\* C6: the list extract_sections returns has no duplicates and is ordered by the
\* first occurrence of each heading in the text; a call on the text of an earlier
\* call returns the list the earlier call returned, whatever was called between.
C6_DistinctOrderedRepeatable ==
    SectionsReturned =>
        LET v == result.value
        IN  /\ \A i, j \in 1..Len(v) : i < j => v[i] # v[j]
            /\ \A i \in 1..Len(v) : \E l \in Range(splitlines(call.text)) :
                   IsHeading(l) /\ HeadingOf(l) = v[i]
            /\ \A i, j \in 1..Len(v) : i < j => FirstLineOf(v[i]) < FirstLineOf(v[j])
            /\ (prev.fn = "extract_sections" /\ prev.text = call.text) => v = prev.value

\* a text whose first heading comes again after another one was given a second
\* time, and both headings came back
C6_Witness ==
    /\ SectionsReturned
    /\ prev.fn = "extract_sections" /\ prev.text = call.text
    /\ LET lines == splitlines(call.text)
       IN  Len(lines) = 3 /\ lines[1] = lines[3] /\ lines[1] # lines[2]
    /\ Len(result.value) = 2

\* ---------------------------------------------------- calls of _detect_title

MaxTitleLines == 3

MaxTitleWords == 3

TitleLines ==
    { <<"a","b"," ","c">>, <<" ","d","\t">>, <<"e"," "," ","f">>, <<>>, <<" ">> }

TitleTexts == {join(<<"\n">>, ls) : ls \in SeqsUpTo(TitleLines, MaxTitleLines)}

TitleCalls ==
    {[fn |-> "_detect_title", text |-> t, max_words |-> m] :
        t \in TitleTexts, m \in 0..MaxTitleWords}

\* one call of _detect_title(text, max_words), from entry to return
DetectTitle ==
    /\ pc = "called"
    /\ call.fn = "_detect_title"
    /\ result' = [kind |-> "str", value |-> _detect_title(call.text, call.max_words)]
    /\ pc' = "returned"
    /\ UNCHANGED <<call, locals, error, prev, app>>

SpecTitle == Called(TitleCalls) /\ [][DetectTitle]_vars

\* the one ellipsis character, U+2026
Ellipsis == <<"U+2026">>

\* the lines before the first line that is blank once stripped
FirstBlock(lines) ==
    LET blank == {i \in 1..Len(lines) : strip(lines[i]) = <<>>}
        stop == IF blank = {} THEN Len(lines) + 1
                ELSE CHOOSE i \in blank : \A j \in blank : i <= j
    IN  [i \in 1..(stop - 1) |-> strip(lines[i])]

\* C7: the title is the stripped lines before the first blank line joined by
\* single spaces, returned unchanged when it has at most max_words words, and
\* otherwise its first max_words words joined by single spaces followed by one
\* ellipsis character: one character more than those words.
C7_TitleRule ==
    (pc = "returned" /\ call.fn = "_detect_title") =>
        LET candidate == join(<<" ">>, FirstBlock(splitlines(call.text)))
            words == split(candidate)
            kept == join(<<" ">>, SubSeq(words, 1, call.max_words))
        IN  IF Len(words) <= call.max_words
            THEN result.value = candidate
            ELSE /\ result.value = kept \o Ellipsis
                 /\ Len(result.value) = Len(kept) + 1

\* --------------------------------------------------- calls of extract_summary

MaxSents == 3

MaxScore == 2

MaxNumSentences == 3

\* what the segmenter gives as sent.text
SentSamples == { <<"A",".">>, <<"B","!"," ">>, <<" ">> }

SummaryCalls ==
    {[fn |-> "extract_summary", sents |-> ss, scores |-> sc, num_sentences |-> k] :
        ss \in SeqsUpTo(SentSamples, MaxSents),
        sc \in SeqsUpTo(0..MaxScore, MaxSents),
        k \in 0..MaxNumSentences}

\* the scores the vectorizer gives are one per non-empty sentence
SummaryCallsGiven ==
    {c \in SummaryCalls : Len(c.scores) = Len(NonEmptySentences(c.sents))}

\* one call of extract_summary that returns: no sentence, no more sentences
\* than asked for, or a selection of them
SummaryReturns ==
    /\ pc = "called"
    /\ call.fn = "extract_summary"
    /\ LET sentences == NonEmptySentences(call.sents)
       IN  \/ /\ sentences = <<>>
              /\ result' = [kind |-> "str", value |-> <<>>]
           \/ /\ sentences # <<>>
              /\ Len(sentences) <= call.num_sentences
              /\ result' = [kind |-> "str", value |-> join(<<" ">>, sentences)]
           \/ /\ sentences # <<>>
              /\ Len(sentences) > call.num_sentences
              /\ ~EmptyVocabulary(call.scores)
              /\ \E order \in ArgSorts(call.scores) :
                    result' = [kind |-> "str",
                               value |-> SummaryOf(sentences, order, call.num_sentences)]
    /\ pc' = "returned"
    /\ UNCHANGED <<call, locals, error, prev, app>>

\* one call of extract_summary that the vectorizer ends with an error
SummaryRaises ==
    /\ pc = "called"
    /\ call.fn = "extract_summary"
    /\ LET sentences == NonEmptySentences(call.sents)
       IN  /\ sentences # <<>>
           /\ Len(sentences) > call.num_sentences
           /\ EmptyVocabulary(call.scores)
    /\ pc' = "raised"
    /\ error' = "ValueError"
    /\ UNCHANGED <<call, locals, result, prev, app>>

SpecSummary == Called(SummaryCallsGiven) /\ [][SummaryReturns \/ SummaryRaises]_vars

\* C8: with n non-empty sentences and num_sentences = k >= 0, extract_summary
\* returns the empty string when n = 0, all the sentences in their order joined
\* by single spaces when n <= k, and otherwise exactly k sentences, the k
\* highest-scoring ones, joined by single spaces in ascending index order.
C8_SummaryRule ==
    (pc = "returned" /\ call.fn = "extract_summary") =>
        LET sentences == NonEmptySentences(call.sents)
            n == Len(sentences)
            k == call.num_sentences
        IN  IF n = 0 THEN result.value = <<>>
            ELSE IF n <= k THEN result.value = join(<<" ">>, sentences)
            ELSE \E I \in SUBSET (1..n) :
                    /\ Cardinality(I) = k
                    /\ \A i \in I : \A j \in (1..n) \ I : call.scores[i] >= call.scores[j]
                    /\ LET ordered == SortedIndices(I)
                       IN  result.value =
                               join(<<" ">>, [i \in 1..k |-> sentences[ordered[i]]])

\* ------------------------------------------------------ calls of extract_text

MaxPages == 2

\* n characters of text
Letters(n) == [i \in 1..n |-> "x"]

\* every way of writing ext in upper and lower case
CaseVariants(ext) ==
    {[i \in 1..Len(ext) |-> IF i \in S THEN ToUpper(ext[i]) ELSE ext[i]] :
        S \in SUBSET (1..Len(ext))}

SupportedExts == { <<".","t","x","t">>, <<".","d","o","c","x">>, <<".","p","d","f">> }

OtherExts ==
    { <<>>, <<".">>, <<".","m","d">>, <<".","t","x">>, <<".","p","d","f","x">>,
      <<".","t","x","t"," ">>, <<".","d","o","c">>, <<".","t","x","t",".","g","z">> }

Stems ==
    { <<"a">>, <<>>, <<"d",".","p","d","f","/","a">>, <<"d","/">>, <<"d","/",".">>,
      <<"a",".","t","x","t">>, <<"t","x","t">> }

ExtractPaths ==
    {stem \o ext : stem \in Stems,
                   ext \in OtherExts \cup UNION {CaseVariants(e) : e \in SupportedExts}}

Page(t) == [given |-> TRUE, text |-> t]

NoPageText == [given |-> FALSE, text |-> <<>>]

\* page texts around the OCR threshold, with and without surrounding whitespace
PageSamples ==
    { NoPageText,
      Page(<<>>),
      Page(Letters(OcrThreshold)),
      Page(Letters(OcrThreshold - 1)),
      Page(<<" ">> \o Letters(OcrThreshold - 1) \o <<"\n">>),
      Page(Letters(OcrThreshold - 2) \o <<" ", "y">>),
      Page(Letters(OcrThreshold \div 2)),
      Page(Letters(OcrThreshold \div 2 - 1)) }

OcrSamples == { <<"s","c","a","n">>, <<" ","o","c","r","\n">> }

PlainFile(opens, content) ==
    [opens |-> opens, content |-> content, paragraphs |-> <<>>, pages |-> <<>>,
     rasterizes |-> TRUE, ocr |-> <<>>]

WordFile(opens, paragraphs) ==
    [opens |-> opens, content |-> <<>>, paragraphs |-> paragraphs, pages |-> <<>>,
     rasterizes |-> TRUE, ocr |-> <<>>]

PdfFile(opens, pages, rasterizes, ocr) ==
    [opens |-> opens, content |-> <<>>, paragraphs |-> <<>>, pages |-> pages,
     rasterizes |-> rasterizes, ocr |-> ocr]

SimpleFiles ==
    {PlainFile(o, c) : o \in BOOLEAN, c \in {<<>>, <<"h","i","\n">>}}
    \cup {WordFile(TRUE, ps) : ps \in SeqsUpTo({<<"p">>, <<>>}, 2)}
    \cup {PdfFile(TRUE, <<Page(Letters(OcrThreshold))>>, TRUE, <<>>),
          PdfFile(TRUE, <<Page(<<"x">>)>>, TRUE, <<<<"s","c","a","n">>>>)}

PdfFiles ==
    {PdfFile(TRUE, ps, r, o) :
        ps \in SeqsUpTo(PageSamples, MaxPages), r \in BOOLEAN, o \in SeqsUpTo(OcrSamples, MaxPages)}
    \cup {PdfFile(FALSE, <<>>, TRUE, <<>>)}

PdfPaths == { <<"d","/","b",".","P","d","f">> }

ExtractCalls ==
    {[fn |-> "extract_text", path |-> p, file |-> f] : p \in ExtractPaths, f \in SimpleFiles}
    \cup {[fn |-> "extract_text", path |-> p, file |-> f] : p \in PdfPaths, f \in PdfFiles}

\* one call of extract_text(path), from entry to return or to the error
ExtractText ==
    /\ pc = "called"
    /\ call.fn = "extract_text"
    /\ LET r == extract_text(call.path, call.file)
       IN  /\ pc' = r.ended
           /\ locals' = [seen |-> {}, readers |-> r.readers]
           /\ result' = IF r.ended = "returned" THEN [kind |-> "str", value |-> r.value]
                        ELSE NoResult
           /\ error' = r.error
    /\ UNCHANGED <<call, prev, app>>

SpecExtract == Called(ExtractCalls) /\ [][ExtractText]_vars

ExtractDone == pc \in {"returned", "raised"} /\ call.fn = "extract_text"

\* the extension of a path: the last dot of its last component and what follows
\* it, unless only dots come before that dot in the component
ExtensionOf(path) ==
    LET seps == {i \in 1..Len(path) : path[i] = "/"}
        from == IF seps = {} THEN 1 ELSE 1 + CHOOSE i \in seps : \A j \in seps : j <= i
        name == SubSeq(path, from, Len(path))
        cuts == {i \in 1..Len(name) :
                    /\ name[i] = "."
                    /\ \A j \in (i + 1)..Len(name) : name[j] # "."
                    /\ \E j \in 1..(i - 1) : name[j] # "."}
    IN  IF cuts = {} THEN <<>>
        ELSE SubSeq(name, CHOOSE i \in cuts : TRUE, Len(name))

\* the reader the extractor of each format starts with
FirstReaderOf(ext) ==
    IF ext = <<".","t","x","t">> THEN "open"
    ELSE IF ext = <<".","d","o","c","x">> THEN "Document"
    ELSE "PdfReader"

\* C2: extract_text dispatches on the lowercased extension alone: a path whose
\* extension is none of .txt, .docx, .pdf in any letter case ends with
\* UnsupportedFormat and no reader invoked; a path whose extension is one of
\* them goes to the extractor of that format and never ends with UnsupportedFormat.
C2_DispatchOnExtension ==
    ExtractDone =>
        LET ext == lower(ExtensionOf(call.path))
        IN  IF ext \in SupportedExts
            THEN /\ error # "UnsupportedFormat"
                 /\ locals.readers # <<>>
                 /\ locals.readers[1] = FirstReaderOf(ext)
                 /\ Range(locals.readers) \subseteq
                        (IF ext = <<".","p","d","f">>
                         THEN {"PdfReader", "convert_from_path", "image_to_string"}
                         ELSE {FirstReaderOf(ext)})
            ELSE /\ pc = "raised"
                 /\ error = "UnsupportedFormat"
                 /\ locals.readers = <<>>

\* a path with its extension in mixed case went to the word-processor reader
C2_Witness ==
    /\ ExtractDone
    /\ pc = "returned"
    /\ ExtensionOf(call.path) = <<".","D","o","c","X">>
    /\ locals.readers = <<"Document">>

\* a path that only looks supported (.txt inside a longer extension) was refused
C2_WitnessRefused ==
    /\ ExtractDone
    /\ error = "UnsupportedFormat"
    /\ ExtensionOf(call.path) = <<".","g","z">>

PdfDone == ExtractDone /\ lower(ExtensionOf(call.path)) = <<".","p","d","f">> /\ call.file.opens

OcrInvoked == "convert_from_path" \in Range(locals.readers)

\* the page texts joined by newlines in page order
PageTextsJoined ==
    join(<<"\n">>, [i \in 1..Len(call.file.pages) |->
                        IF call.file.pages[i].given THEN call.file.pages[i].text ELSE <<>>])

\* C4 as stated: OCR is invoked exactly when the extractable text has fewer than
\* 100 characters; without OCR the result is the page texts joined by newlines,
\* with OCR it is the OCR texts of the pages joined in page order.
C4_OcrRuleAsStated ==
    PdfDone =>
        /\ OcrInvoked <=> Len(strip(PageTextsJoined)) < 100
        /\ (pc = "returned" /\ ~OcrInvoked) => result.value = PageTextsJoined
        /\ (pc = "returned" /\ OcrInvoked) => result.value = join(<<"\n">>, call.file.ocr)

\* C4, amended: OCR is invoked exactly when the page texts joined by newlines and
\* stripped of surrounding whitespace have fewer than 100 characters; without OCR
\* the result is that stripped text, with OCR it is the OCR texts of the pages
\* joined by newlines in page order (not stripped), the extracted text discarded.
C4_OcrRule ==
    PdfDone =>
        /\ OcrInvoked <=> Len(strip(PageTextsJoined)) < 100
        /\ (pc = "returned" /\ ~OcrInvoked) =>
               /\ result.value = strip(PageTextsJoined)
               /\ locals.readers = <<"PdfReader">>
        /\ (pc = "returned" /\ OcrInvoked) => result.value = join(<<"\n">>, call.file.ocr)
        /\ pc = "raised" => OcrInvoked

\* a PDF whose two pages give 100 characters once joined returned them, OCR not invoked
C4_Witness ==
    /\ PdfDone
    /\ pc = "returned"
    /\ Len(call.file.pages) = 2
    /\ Len(result.value) = 100
    /\ ~OcrInvoked

\* a PDF with 99 characters of text between whitespace was sent to OCR
C4_WitnessOcr ==
    /\ PdfDone
    /\ pc = "returned"
    /\ Len(PageTextsJoined) > 100
    /\ Len(strip(PageTextsJoined)) = 99
    /\ OcrInvoked
    /\ result.value = join(<<"\n">>, call.file.ocr)
    /\ result.value # <<>>

\* ------------------------------------------------- calls of get_file_metadata

Info(style, author, slash_author, creation_date, slash_creation_date) ==
    [style |-> style, author |-> author, slash_author |-> slash_author,
     creation_date |-> creation_date, slash_creation_date |-> slash_creation_date]

\* reader.metadata is None: info is the empty dict
NoInfo == Info("dict", None, None, None, None)

AuthorSamples == {None, Str(<<>>), Str(<<"A","n","n">>)}

GoodDate == <<"2","0","2","4","0","1","0","2","0","3","0","4","0","5">>

DateSamples ==
    { None,
      Str(<<>>),
      DateTime(IsoFormat(GoodDate)),
      Str(<<"D", ":">> \o GoodDate \o <<"+","0","0","'","0","0","'">>),
      Str(GoodDate),
      Str(<<"D", ":", "s", "o", "o", "n">>),
      Str(<<"D", ":", "2", "0", "2", "4", "1", "3">>) }

Infos ==
    {Info("attr", a, None, d, None) : a \in AuthorSamples, d \in DateSamples}
    \cup {Info("dict", a, b, None, d) :
            a \in {None}, b \in AuthorSamples, d \in DateSamples}
    \cup {Info("dict", Str(<<"B","o">>), Str(<<"A","n","n">>), Str(GoodDate), None), NoInfo}

MetaFile(opens, access_fails, info) ==
    [opens |-> opens, access_fails |-> access_fails, info |-> info]

MetaFiles ==
    {MetaFile(TRUE, FALSE, i) : i \in Infos}
    \cup {MetaFile(FALSE, FALSE, NoInfo), MetaFile(TRUE, TRUE, NoInfo)}

MetaPaths ==
    { <<"a",".","p","d","f">>, <<"a",".","P","D","F">>, <<"b",".","d","o","c","x">>,
      <<"c",".","t","x","t">>, <<"n","o","e","x","t">> }

MetaCalls ==
    {[fn |-> "get_file_metadata", path |-> p, file |-> f] : p \in MetaPaths, f \in MetaFiles}

\* one call of get_file_metadata(path), from entry to return or to the error
GetFileMetadata ==
    /\ pc = "called"
    /\ call.fn = "get_file_metadata"
    /\ LET r == get_file_metadata(call.path, call.file)
       IN  /\ pc' = r.ended
           /\ result' = IF r.ended = "returned"
                        THEN [kind |-> "dict", author |-> r.author, created_at |-> r.created_at]
                        ELSE NoResult
           /\ error' = r.error
    /\ UNCHANGED <<call, locals, prev, app>>

SpecFileMeta == Called(MetaCalls) /\ [][GetFileMetadata]_vars

\* the raw creation date the code reads from the metadata of the called file
RawCreationDate ==
    LET i == call.file.info
    IN  IF i.style = "attr" THEN i.creation_date ELSE Or(i.creation_date, i.slash_creation_date)

\* the creation date is absent, or is a string that, its D: prefix removed, does
\* not start with the fourteen digits of a date
DateAbsentOrUnparseable ==
    \/ ~Truthy(RawCreationDate)
    \/ /\ RawCreationDate.kind = "str"
       /\ LET v == RawCreationDate.value
              body == IF Len(v) >= 2 /\ v[1] = "D" /\ v[2] = ":" THEN SubSeq(v, 3, Len(v)) ELSE v
          IN  ~(Len(body) >= 14 /\ ParsesAsDate(SubSeq(body, 1, 14)))

\* C3: get_file_metadata never fails: whatever the reader does (failing to open
\* or parse the file included, a field absent or unparseable), the call returns
\* a record whose author and created_at are strings, the empty string for each
\* affected field, and raises nothing.
C3_NeverFails ==
    (pc \in {"returned", "raised"} /\ call.fn = "get_file_metadata") =>
        /\ pc = "returned"
        /\ error = "none"
        /\ result.author.kind = "str"
        /\ result.created_at.kind = "str"
        /\ (lower(ExtensionOf(call.path)) = <<".","p","d","f">> /\ DateAbsentOrUnparseable)
               => result.created_at.value = <<>>

\* ------------------------------------------------ calls of generate_metadata

MaxDocWords == 2

MaxKeywordCount == 2

DefaultMaxWords == 20

DocWords ==
    { <<"t","h","e">>, <<"D","a","t","a">>, <<"d","a","t","a">>, <<"x">>,
      <<"g","o","-","o","n">>, <<"\n">> }

\* the texts a document can hold: up to MaxDocWords of the words, a space between
DocTexts == {join(<<" ">>, ws) : ws \in SeqsUpTo(DocWords, MaxDocWords)}

KeywordCalls ==
    {[fn |-> "extract_keywords", text |-> t, top_n |-> n] :
        t \in DocTexts, n \in 0..MaxKeywordCount}

\* one call of extract_keywords(text, top_n), from entry to return or to the error
ExtractKeywords ==
    /\ pc = "called"
    /\ call.fn = "extract_keywords"
    /\ \/ /\ KeywordsRaise(call.text, call.top_n)
          /\ pc' = "raised"
          /\ error' = "ValueError"
          /\ UNCHANGED result
       \/ /\ ~KeywordsRaise(call.text, call.top_n)
          /\ \E kw \in KeywordLists(call.text, call.top_n) :
                result' = [kind |-> "list", value |-> kw]
          /\ pc' = "returned"
          /\ UNCHANGED error
    /\ UNCHANGED <<call, locals, prev, app>>

\* the documents given to generate_metadata: the path, what the text readers
\* find in the file and what the metadata readers find in it
Document(path, file, meta) == [path |-> path, file |-> file, meta |-> meta]

PlainMeta == MetaFile(TRUE, FALSE, NoInfo)

SignedMeta ==
    MetaFile(TRUE, FALSE, Info("attr", Str(<<"A","n","n">>), None, Str(GoodDate), None))

TextDocuments ==
    {Document(p, PlainFile(TRUE, t), PlainMeta) :
        p \in { <<"a",".","t","x","t">>, <<"d",".","v","1","/","N",".","T","x","T">> },
        t \in DocTexts}
    \cup {Document(<<"a",".","t","x","t">>, PlainFile(FALSE, <<>>), PlainMeta)}

WordDocuments ==
    {Document(<<"b",".","D","O","C","X">>, WordFile(TRUE, ps), m) :
        ps \in { <<>>, << <<"D","A","T","A">>, <<"1","."," ","g","o">> >> },
        m \in {PlainMeta, SignedMeta, MetaFile(FALSE, FALSE, NoInfo)}}

PdfDocuments ==
    {Document(<<"c",".","p","d","f">>, f, m) :
        f \in { PdfFile(TRUE, <<Page(<<"d","a","t","a">>)>>, TRUE, <<<<"s","c","a","n">>>>),
                PdfFile(TRUE, <<Page(<<"d","a","t","a">>)>>, FALSE, <<>>),
                PdfFile(TRUE, <<Page(Letters(OcrThreshold))>>, TRUE, <<>>) },
        m \in {SignedMeta, MetaFile(TRUE, TRUE, NoInfo)}}

OtherDocuments ==
    {Document(<<"r",".","m","d">>, PlainFile(TRUE, <<"d","a","t","a">>), PlainMeta)}

Documents == TextDocuments \cup WordDocuments \cup PdfDocuments \cup OtherDocuments

DefaultWpm == 200

WpmSamples == {0, 3, DefaultWpm}

GenerateCalls ==
    {[fn |-> "generate_metadata", path |-> d.path, file |-> d.file, meta |-> d.meta,
      summary_sentences |-> k, keyword_count |-> n, wpm |-> w] :
        d \in Documents, k \in 0..1, n \in 0..MaxKeywordCount, w \in WpmSamples}

Generating(stage) == pc = stage /\ call.fn = "generate_metadata"

\* the call is left by an exception raised in `stage`: no record is returned
Abort(stage, err) ==
    /\ pc' = "raised"
    /\ error' = err
    /\ locals' = [failed_at |-> stage] @@ locals
    /\ UNCHANGED <<call, result, prev, app>>

\* the stage assigned its local variables; the next stage follows
Assign(assigned, next) ==
    /\ pc' = next
    /\ locals' = assigned @@ locals
    /\ UNCHANGED <<call, result, error, prev, app>>

\* file_meta = get_file_metadata(path)
GmFileMeta ==
    /\ Generating("called")
    /\ LET r == get_file_metadata(call.path, call.meta)
       IN  IF r.ended = "raised" THEN Abort("file_meta", r.error)
           ELSE Assign([file_meta |-> [author |-> r.author, created_at |-> r.created_at]],
                       "extract_text")

\* raw = extract_text(path)
GmExtractText ==
    /\ Generating("extract_text")
    /\ LET r == extract_text(call.path, call.file)
       IN  IF r.ended = "raised" THEN Abort("extract_text", r.error)
           ELSE Assign([raw |-> r.value], "detect")

\* language = detect(raw), "unknown" when the detector raises; filename and ext
GmDetect ==
    /\ Generating("detect")
    /\ \E language \in {"en", "unknown"} :
          Assign([language |-> language,
                  filename |-> basename(call.path),
                  ext |-> splitext_ext(basename(call.path))], "title")

\* title = _detect_title(raw)
GmTitle ==
    /\ Generating("title")
    /\ Assign([title |-> _detect_title(locals.raw, DefaultMaxWords)], "keywords")

\* keywords = extract_keywords(raw, top_n=keyword_count)
GmKeywords ==
    /\ Generating("keywords")
    /\ \/ /\ KeywordsRaise(locals.raw, call.keyword_count)
          /\ Abort("keywords", "ValueError")
       \/ /\ ~KeywordsRaise(locals.raw, call.keyword_count)
          /\ \E kw \in KeywordLists(locals.raw, call.keyword_count) :
                Assign([keywords |-> kw], "summary")

\* summary = extract_summary(raw, num_sentences=summary_sentences), the
\* segmenter finding one sentence in these short texts
GmSummary ==
    /\ Generating("summary")
    /\ LET sentences == NonEmptySentences(<<clean_text(locals.raw)>>)
           scores == [i \in 1..Len(sentences) |-> Len(Tokens(sentences[i]))]
       IN  IF sentences = <<>> THEN Assign([summary |-> <<>>], "entities")
           ELSE IF Len(sentences) <= call.summary_sentences
                THEN Assign([summary |-> join(<<" ">>, sentences)], "entities")
           ELSE IF EmptyVocabulary(scores) THEN Abort("summary", "ValueError")
           ELSE \E order \in ArgSorts(scores) :
                   Assign([summary |-> SummaryOf(sentences, order, call.summary_sentences)],
                          "entities")

\* what the entity recogniser finds
EntitySamples == { <<>>, << <<"Ann", "PERSON">>, <<"Ann", "PERSON">> >> }

\* entities = extract_entities(raw)
GmEntities ==
    /\ Generating("entities")
    /\ \E entities \in EntitySamples : Assign([entities |-> entities], "sections")

\* sections = extract_sections(raw)
GmSections ==
    /\ Generating("sections")
    /\ LET r == extract_sections(locals.raw, locals.seen)
       IN  Assign([sections |-> r[1], seen |-> r[2]], "count")

\* word_count and reading_time_min (kept in hundredths of a minute)
GmCount ==
    /\ Generating("count")
    /\ IF call.wpm = 0 THEN Abort("count", "ZeroDivisionError")
       ELSE Assign([word_count |-> WordCount(locals.raw),
                    reading_time_min |-> ReadingTime(WordCount(locals.raw), call.wpm)],
                   "assemble")

\* meta is assembled and returned
GmReturn ==
    /\ Generating("assemble")
    /\ result' = [kind |-> "dict", value |-> Meta(locals)]
    /\ pc' = "returned"
    /\ UNCHANGED <<call, locals, error, prev, app>>

Init == Called(GenerateCalls \cup KeywordCalls)

Next ==
    \/ GmFileMeta \/ GmExtractText \/ GmDetect \/ GmTitle \/ GmKeywords \/ GmSummary
    \/ GmEntities \/ GmSections \/ GmCount \/ GmReturn
    \/ ExtractKeywords

Spec == Init /\ [][Next]_vars

GenerateCalled == call.fn = "generate_metadata"

GenerateReturned == GenerateCalled /\ pc = "returned"

RecordKeys ==
    {"filename", "filetype", "title", "word_count", "reading_time_min", "keywords",
     "summary", "entities", "sections", "author", "created_at", "language"}

\* C1: a call of generate_metadata ends by raising an error, no record returned,
\* or by returning a record with exactly the twelve keys; whichever stage fails,
\* and at every stage before the return, no record with part of the keys exists.
C1_RecordWholeOrNone ==
    GenerateCalled =>
        /\ pc = "returned" => (result.kind = "dict" /\ DOMAIN result.value = RecordKeys)
        /\ pc # "returned" => result.kind = "none"
        /\ pc = "raised" <=> error # "none"

\* the last stage that can fail failed, with every other field computed: no record
C1_Witness ==
    /\ GenerateCalled
    /\ pc = "raised"
    /\ locals.failed_at = "count"
    /\ locals.sections # <<>>
    /\ result.kind = "none"

\* a record was returned for a PDF read through OCR
C1_WitnessRecord ==
    /\ GenerateReturned
    /\ DOMAIN result.value = RecordKeys
    /\ result.value.filetype = <<".","p","d","f">>
    /\ result.value.author = <<"A","n","n">>

\* the text holds a token of the term-weighting engine (two or more word
\* characters in a row, cut at the characters that are none) that, lowercased,
\* is not a stop word
HasContentToken(text) ==
    \E i, j \in 1..Len(text) :
        /\ i < j
        /\ i = 1 \/ ~IsWordChar(text[i - 1])
        /\ j = Len(text) \/ ~IsWordChar(text[j + 1])
        /\ \A k \in i..j : IsWordChar(text[k])
        /\ lower(SubSeq(text, i, j)) \notin StopWords

Distinct(seq) == \A i, j \in 1..Len(seq) : i # j => seq[i] # seq[j]

\* the keywords kw answer a request for at most n keywords of `text`
KeywordsFit(kw, text, n) ==
    /\ Distinct(kw)
    /\ Len(kw) <= n
    /\ HasContentToken(text) => Len(kw) > 0

\* the claim about the keywords, for the keyword counts in `counts`
KeywordRule(counts) ==
    /\ (call.fn = "extract_keywords" /\ call.top_n \in counts) =>
           /\ pc = "returned" => KeywordsFit(result.value, call.text, call.top_n)
           /\ HasContentToken(call.text) => pc # "raised"
    /\ (GenerateCalled /\ call.keyword_count \in counts) =>
           /\ pc = "returned" =>
                  /\ KeywordsFit(result.value.keywords, locals.raw, call.keyword_count)
                  /\ result.value.keywords = locals.keywords
           /\ (pc = "raised" /\ locals.failed_at = "keywords") => ~HasContentToken(locals.raw)

C10_CountsAndType ==
    (GenerateReturned /\ locals.raw # <<>>) =>
        LET raw == locals.raw
            tokens == {i \in 1..Len(raw) : ~IsSpace(raw[i]) /\ (i = 1 \/ IsSpace(raw[i - 1]))}
            wc == result.value.word_count
            hundredths == result.value.reading_time_min
            off == call.wpm * hundredths - 100 * wc
        IN  /\ wc = Cardinality(tokens)
            /\ wc > 0
            /\ 2 * off <= call.wpm /\ 2 * off >= 0 - call.wpm
            /\ call.wpm = 200 =>
                   /\ hundredths > 0
                   /\ 2 * hundredths - wc < 20 /\ wc - 2 * hundredths < 20
            /\ result.value.filetype = lower(ExtensionOf(call.path))
            /\ result.value.filetype # <<>> /\ result.value.filetype[1] = "."

\* a one-word document read at 200 words a minute: 0.01 minutes, type .txt from N.TxT
C10_Witness ==
    /\ GenerateReturned
    /\ call.wpm = 200
    /\ result.value.word_count = 1
    /\ result.value.reading_time_min = 1
    /\ ExtensionOf(call.path) = <<".","T","x","T">>
    /\ result.value.filetype = <<".","t","x","t">>

\* ------------------------------------------------------------------ app.py

\* summary_sentences=3 of the call in app.py
AppSummarySentences == 3

\* keyword_count=10 of the call in app.py
AppKeywordCount == 10

\* tmp_dir
TmpDir == <<"t","e","m","p","_","u","p","l","o","a","d","s">>

\* os.path.join(tmp_dir, uploaded.name)
TmpPath(name) == TmpDir \o <<"/">> \o name

\* the uploads the file_uploader lets through (type pdf, docx or txt), under
\* the name the browser gives them
Uploads ==
    {[name |-> basename(d.path), file |-> d.file, meta |-> d.meta] :
        d \in TextDocuments \cup WordDocuments \cup PdfDocuments}

\* the call of generate_metadata that a run of app.py makes for an upload
AppCalls ==
    {[fn |-> "generate_metadata", path |-> TmpPath(u.name), file |-> u.file,
      meta |-> u.meta, summary_sentences |-> AppSummarySentences,
      keyword_count |-> AppKeywordCount, wpm |-> DefaultWpm] : u \in Uploads}

\* a run of app.py on an upload, at `if uploaded:`; nothing is on disk yet
Uploaded ==
    /\ app_pc = "uploaded"
    /\ call \in AppCalls
    /\ pc = "idle"
    /\ locals = [seen |-> {}]
    /\ result = NoResult
    /\ error = "none"
    /\ prev = NoCall
    /\ disk = {}
    /\ remove_tried = FALSE

\* the upload is written to temp_uploads
AppSave ==
    /\ app_pc = "uploaded"
    /\ disk' = disk \cup {call.path}
    /\ app_pc' = "saved"
    /\ UNCHANGED <<pc, call, locals, result, error, prev, remove_tried>>

\* meta = generate_metadata(tmp_path, summary_sentences=3, keyword_count=10)
AppGenerate ==
    /\ app_pc = "saved"
    /\ pc = "idle"
    /\ pc' = "called"
    /\ app_pc' = "generating"
    /\ UNCHANGED <<call, locals, result, error, prev, disk, remove_tried>>

\* generate_metadata returned: the page is filled from meta, the cleanup follows
AppShow ==
    /\ app_pc = "generating"
    /\ pc = "returned"
    /\ app_pc' = "cleanup"
    /\ UNCHANGED <<pc, call, locals, result, error, prev, disk, remove_tried>>

\* generate_metadata raised: nothing around the call catches the exception, it
\* leaves the script and the run ends there
AppRaise ==
    /\ app_pc = "generating"
    /\ pc = "raised"
    /\ app_pc' = "aborted"
    /\ UNCHANGED <<pc, call, locals, result, error, prev, disk, remove_tried>>

\* try: os.remove(tmp_path) except Exception: pass
AppCleanup ==
    /\ app_pc = "cleanup"
    /\ remove_tried' = TRUE
    /\ \E removed \in BOOLEAN :
          disk' = IF removed THEN disk \ {call.path} ELSE disk
    /\ app_pc' = "done"
    /\ UNCHANGED <<pc, call, locals, result, error, prev>>

NextApp ==
    \/ AppSave \/ AppGenerate
    \/ GmFileMeta \/ GmExtractText \/ GmDetect \/ GmTitle \/ GmKeywords \/ GmSummary
    \/ GmEntities \/ GmSections \/ GmCount \/ GmReturn
    \/ AppShow \/ AppRaise \/ AppCleanup

SpecApp == Uploaded /\ [][NextApp]_vars

\* the run of app.py is over: its last statement ran or an exception left it
RequestEnded == app_pc \in {"done", "aborted"}

\* C11: the temporary copy of the upload is on disk before generate_metadata is
\* invoked; once the request has ended a deletion of it has been attempted,
\* whether the pipeline returned a record or aborted with an error; a failed
\* deletion surfaces no error. No request ends with the file on disk and no
\* deletion attempted.
C11_TempFileScopedToRequest ==
    app_pc # "none" =>
        /\ (pc # "idle" /\ ~remove_tried) => call.path \in disk
        /\ RequestEnded => remove_tried
        /\ (RequestEnded /\ pc = "returned") => error = "none"
        /\ ~(RequestEnded /\ call.path \in disk /\ ~remove_tried)

\* the part of C11 that the code keeps: when the pipeline returned a record, the
\* request ends with the deletion attempted and no error, removed or not
CleanupAfterRecord ==
    (RequestEnded /\ pc = "returned") => (remove_tried /\ error = "none")

\* a request that ended with the deletion attempted and failed, silently
CleanupFailedSilently ==
    app_pc = "done" /\ remove_tried /\ call.path \in disk /\ error = "none"

\* a request that ended on an error of the pipeline with its file left on disk
\* and no deletion attempted
TempFileAbandoned ==
    app_pc = "aborted" /\ call.path \in disk /\ ~remove_tried

====
